---- MODULE Spec2Model ----
(***************************************************************************)
(* Model of docker_tui (src/src/main.rs): the control loop of run_app, the *)
(* input relay task it spawns, the bounded channel between them, and       *)
(* get_docker_ps_output with its line decoder.                             *)
(*                                                                         *)
(* The external world (the terminal, the docker binary) is nondeterminism: *)
(* every outcome the calls can return is drawn with \E from a small set.   *)
(***************************************************************************)
EXTENDS Integers, Sequences, FiniteSets, TLC

(***************************************************************************)
(* Bounds of the model.                                                    *)
(***************************************************************************)
\* Key events the terminal delivers in one session.
MaxKeys == 3
\* Lines in one `docker ps` standard output.
MaxLines == 2
\* Capacity of the key channel.  The source builds mpsc::channel(100)
\* (main.rs:62); the model scales it down so that a full channel, and the
\* relay blocked in send, happen within MaxKeys key events.
ChannelCapacity == 1

(***************************************************************************)
(* Data                                                                    *)
(***************************************************************************)
\* main.rs:73  let commands = vec!["ps", "ps -a", "stop", "prune"];
\* Rust indexes from 0: commands[i] of the source is commands[i + 1] here.
commands == <<"ps", "ps -a", "stop", "prune">>

\* The key codes run_app matches on (main.rs:164-241); "Other" stands for
\* every code that falls to the `_ => {}` arm.
KeyCodes == {"q", "Down", "Up", "Right", "Left", "s", "Enter", "Other"}

\* The seven fields serde requires of a ContainerInfo (main.rs:18-34).
Fields == {"ID", "Image", "Command", "CreatedAt", "Status", "Ports", "Names"}

\* Container identifiers docker reports.
Ids == {"abc123", "def456"}

\* One line of docker's standard output: whether it is a JSON object, which
\* of the schema's fields it carries (as strings), and the text of its ID.
JsonLine(id) == [json |-> TRUE, fields |-> Fields, ID |-> id]
GarbageLine == [json |-> FALSE, fields |-> {}, ID |-> ""]
Lines == {JsonLine(id) : id \in Ids} \cup {GarbageLine}

\* Option<T>
None == [some |-> FALSE]
Some(v) == [some |-> TRUE, value |-> v]

\* serde_json::from_str::<ContainerInfo>(line).ok()  (main.rs:261): a record
\* when the line is a JSON object with every field of the schema, else None.
\* The loop reads only `id` outside of rendering, so the record keeps `id`.
from_str(line) ==
    IF line.json /\ Fields \subseteq line.fields
    THEN Some([id |-> line.ID])
    ELSE None

\* filter_map replaced by map_while: decoding stops at the first line that
\* does not decode.
RECURSIVE map_while(_)
map_while(lines) ==
    IF lines = <<>> THEN <<>>
    ELSE LET r == from_str(Head(lines))
         IN  IF r.some THEN <<r.value>> \o map_while(Tail(lines))
             ELSE <<>>

\* stdout.lines().filter_map(..).collect()  (main.rs:259-262)
RECURSIVE filter_map(_)
filter_map(lines) ==
    IF lines = <<>> THEN <<>>
    ELSE LET r == from_str(Head(lines))
         IN  IF r.some THEN <<r.value>> \o filter_map(Tail(lines))
             ELSE filter_map(Tail(lines))

\* Sequences over S of length at most n.
SeqUpTo(S, n) == UNION {[1..k -> S] : k \in 0..n}

\* io::Error values a failed spawn or terminal call may carry.
IoErrors == {"NotFound"}

\* Result<Output, io::Error> of Command::output().await: Ok carries the exit
\* code and the captured standard output, whatever the exit code is.
OkOutput(code, stdout) == [ok |-> TRUE, code |-> code, stdout |-> stdout, err |-> ""]
ErrOutput(e) == [ok |-> FALSE, code |-> 0, stdout |-> <<>>, err |-> e]
ExitCodes == {0, 1}
\* `docker ps`: the lines it printed (exit code 0), nothing printed and a
\* non-zero exit code (the daemon is not reachable), or no process at all.
PsOutputs ==
    {OkOutput(0, out) : out \in SeqUpTo(Lines, MaxLines)}
        \cup {OkOutput(1, <<>>)}
        \cup {ErrOutput(e) : e \in IoErrors}
\* `docker stop <id>` and `docker system prune -f`: only the exit code and
\* the spawn error are read.
ActionOutputs ==
    {OkOutput(c, <<>>) : c \in ExitCodes} \cup {ErrOutput(e) : e \in IoErrors}

\* get_docker_ps_output (main.rs:249-265): the argv it builds ...
DockerPsArgs(all) ==
    IF all THEN <<"docker", "ps", "-a", "--format", "{{json .}}">>
    ELSE <<"docker", "ps", "--format", "{{json .}}">>

\* ... and its result for an outcome of the invocation: `expect` panics on
\* Err (main.rs:257), otherwise the decoded lines are returned.
get_docker_ps_output(output) ==
    IF output.ok
    THEN [panic |-> FALSE, value |-> filter_map(output.stdout)]
    ELSE [panic |-> TRUE, value |-> <<>>]

\* containers.get(selected_container)  (main.rs:187, 202); Rust index i is
\* position i + 1 here.
Get(vec, i) == IF i < Len(vec) THEN Some(vec[i + 1]) ELSE None

\* usize::saturating_sub  (main.rs:167)
saturating_sub(a, b) == IF a >= b THEN a - b ELSE 0

\* format! texts, kept as the sequence of their pieces.
EmptyString == <<>>
StoppedMessage(id) == <<"Stopped container ", id>>
FailedStopMessage(e) == <<"Failed to stop container: ", e>>
PrunedMessage == <<"System pruned">>
FailedPruneMessage(e) == <<"Failed to prune system: ", e>>

\* No Output value: the `output` local is not in scope.
NoOutput == [ok |-> FALSE, code |-> 0, stdout |-> <<>>, err |-> ""]

\* match output { Ok(_) => .., Err(e) => .. } of the stop shortcut
\* (main.rs:194-197): the exit code inside Ok(_) is not looked at.
KeyStopStatus(output, id) ==
    IF output.ok THEN StoppedMessage(id) ELSE FailedStopMessage(output.err)

\* EnterStopStatus with a success text of its own, without the identifier.
EnterStopStatusNoId(output, id) ==
    IF output.ok THEN <<"Stopped container">> ELSE FailedStopMessage(output.err)

\* The same match in the Enter arm (main.rs:209-216).
EnterStopStatus(output, id) ==
    IF output.ok THEN StoppedMessage(id) ELSE FailedStopMessage(output.err)

\* match output { Ok(_) => .., Err(e) => .. } of prune (main.rs:226-229).
PruneStatus(output) ==
    IF output.ok THEN PrunedMessage ELSE FailedPruneMessage(output.err)

DockerStopArgs(id) == <<"docker", "stop", id>>
DockerPruneArgs == <<"docker", "system", "prune", "-f">>

(***************************************************************************)
(* State                                                                   *)
(***************************************************************************)
VARIABLES
    selected_command,   \* main.rs:74
    selected_container, \* main.rs:75
    containers,         \* main.rs:76
    all_flag,           \* main.rs:77
    status_message,     \* main.rs:78
    pc,                 \* where run_app is in its loop
    channel,            \* key events sent and not yet received (tx -> rx)
    relay,              \* where the relay task is in its loop
    key,                \* the key event the relay holds between read and send
    observed,           \* history: serials of the key events the relay read
    dispatched,         \* history: serials of the key events run_app matched
    invocation,         \* argv of the external command run_app awaits, if any
    output,             \* the `output` local of the stop and prune arms
    frame,              \* what the last terminal.draw showed
    sinceRender         \* keys dispatched since the last terminal.draw

app == <<selected_command, selected_container, containers, all_flag, status_message>>
relayVars == <<channel, relay, key, observed>>
vars == <<selected_command, selected_container, containers, all_flag,
          status_message, pc, channel, relay, key, observed, dispatched,
          invocation, output, frame, sinceRender>>

NoKey == [code |-> "Other", serial |-> 0]

\* run_app has returned or unwound: rx is dropped, which closes the channel
\* and discards what it still holds.
LoopEnded == pc \in {"done", "failed", "panicked"}
Dropped == <<>>

\* No external command is running.
NoInvocation == <<>>

Init ==
    /\ selected_command = 0
    /\ selected_container = 0
    /\ containers = <<>>
    /\ all_flag = FALSE
    /\ status_message = EmptyString
    /\ pc = "top"
    /\ channel = <<>>
    /\ relay = "poll"
    /\ key = NoKey
    /\ observed = <<>>
    /\ dispatched = <<>>
    /\ invocation = NoInvocation
    /\ output = NoOutput
    /\ frame = None
    /\ sinceRender = 0

(***************************************************************************)
(* The channel: tokio::sync::mpsc::channel (main.rs:62)                    *)
(***************************************************************************)
\* rx.try_recv()  (main.rs:163): Err when nothing is queued, else the oldest
\* queued key, which leaves the channel.
try_recv(ch) ==
    IF ch = <<>> THEN [ok |-> FALSE, value |-> NoKey, rest |-> ch]
    ELSE [ok |-> TRUE, value |-> Head(ch), rest |-> Tail(ch)]

\* A send that completes while the channel already holds its capacity.
CanSendOffByOne(ch) == Len(ch) <= ChannelCapacity

\* tx.send(key).await  (main.rs:67) completes once the channel has room.
CanSend(ch) == Len(ch) < ChannelCapacity
send(ch, k) == Append(ch, k)

(***************************************************************************)
(* The relay task  (main.rs:63-71)                                         *)
(***************************************************************************)
\* event::poll(..) returned Ok(true).  Ok(false) returns to the poll and is
\* a stuttering step.
RelayPollReady ==
    /\ relay = "poll"
    /\ relay' = "read"
    /\ UNCHANGED <<app, pc, channel, key, observed, dispatched, invocation,
                   output, frame, sinceRender>>

\* event::poll(..) returned Err: unwrap panics and the task ends (main.rs:65).
RelayPollError ==
    /\ relay = "poll"
    /\ relay' = "panicked"
    /\ UNCHANGED <<app, pc, channel, key, observed, dispatched, invocation,
                   output, frame, sinceRender>>

\* event::read() returned a key event  (main.rs:66).
RelayReadKey ==
    /\ relay = "read"
    /\ Len(observed) < MaxKeys
    /\ \E code \in KeyCodes :
          key' = [code |-> code, serial |-> Len(observed) + 1]
    /\ observed' = Append(observed, Len(observed) + 1)
    /\ relay' = "send"
    /\ UNCHANGED <<app, pc, channel, dispatched, invocation, output, frame,
                   sinceRender>>

\* event::read() returned a mouse, resize, focus or paste event: `if let`
\* does not match and the loop polls again.
RelayReadOther ==
    /\ relay = "read"
    /\ relay' = "poll"
    /\ UNCHANGED <<app, pc, channel, key, observed, dispatched, invocation,
                   output, frame, sinceRender>>

\* event::read() returned Err: unwrap panics  (main.rs:66).
RelayReadError ==
    /\ relay = "read"
    /\ relay' = "panicked"
    /\ UNCHANGED <<app, pc, channel, key, observed, dispatched, invocation,
                   output, frame, sinceRender>>

\* RelaySend with tx.try_send(key) in place of tx.send(key).await: a key
\* that finds the channel full is given up.
RelaySendLossy ==
    /\ relay = "send"
    /\ IF LoopEnded
       THEN /\ relay' = "panicked"
            /\ UNCHANGED channel
       ELSE /\ channel' = (IF CanSend(channel) THEN send(channel, key) ELSE channel)
            /\ relay' = "poll"
    /\ key' = NoKey
    /\ UNCHANGED <<app, pc, observed, dispatched, invocation, output, frame,
                   sinceRender>>

\* tx.send(key).await.unwrap()  (main.rs:67): waits while the channel is
\* full; Err, and so a panic, once rx has been dropped.
RelaySend ==
    /\ relay = "send"
    /\ IF LoopEnded
       THEN /\ relay' = "panicked"
            /\ UNCHANGED channel
       ELSE /\ CanSend(channel)
            /\ channel' = send(channel, key)
            /\ relay' = "poll"
    /\ key' = NoKey
    /\ UNCHANGED <<app, pc, observed, dispatched, invocation, output, frame,
                   sinceRender>>

Relay ==
    \/ RelayPollReady
    \/ RelayPollError
    \/ RelayReadKey
    \/ RelayReadOther
    \/ RelayReadError
    \/ RelaySend

(***************************************************************************)
(* The control loop of run_app  (main.rs:80-244)                           *)
(***************************************************************************)
\* IsListing with the second comparison forgotten.
IsListingPsOnly(i) == commands[i + 1] = "ps"

\* main.rs:81
IsListing(i) == commands[i + 1] = "ps" \/ commands[i + 1] = "ps -a"

\* main.rs:81-82: the listing command is highlighted, `docker ps` starts.
RefreshStart ==
    /\ pc = "top"
    /\ IsListing(selected_command)
    /\ invocation' = DockerPsArgs(all_flag)
    /\ pc' = "listing"
    /\ UNCHANGED <<app, relayVars, dispatched, output, frame, sinceRender>>

\* main.rs:81: the condition is false, nothing is invoked.
RefreshSkip ==
    /\ pc = "top"
    /\ ~IsListing(selected_command)
    /\ pc' = "draw"
    /\ UNCHANGED <<app, relayVars, dispatched, invocation, output, frame,
                   sinceRender>>

\* main.rs:82, 257-264: the invocation completes; its result replaces the
\* cached list, or `expect` panics.
RefreshDone ==
    /\ pc = "listing"
    /\ \E o \in PsOutputs :
          LET r == get_docker_ps_output(o)
          IN  IF r.panic
              THEN pc' = "panicked" /\ UNCHANGED containers
              ELSE pc' = "draw" /\ containers' = r.value
    /\ channel' = (IF pc' = "panicked" THEN Dropped ELSE channel)
    /\ invocation' = NoInvocation
    /\ UNCHANGED <<selected_command, selected_container, all_flag, status_message,
                   relay, key, observed, dispatched, output, frame, sinceRender>>

\* What terminal.draw shows (main.rs:85-160), as far as the loop's state
\* decides it: the record drawn with the row highlight (main.rs:117-133: the
\* row whose index is selected_container, if there is one) and the status
\* line (main.rs:158-160).
Render ==
    Some([highlighted |-> Get(containers, selected_container),
          status_message |-> status_message])

\* terminal.draw(..)?  (main.rs:85-161): Ok goes on to try_recv, Err returns
\* from run_app.
Draw ==
    /\ pc = "draw"
    /\ \E ok \in BOOLEAN :
          IF ok
          THEN pc' = "recv" /\ frame' = Render /\ sinceRender' = 0
          ELSE pc' = "failed" /\ UNCHANGED <<frame, sinceRender>>
    /\ channel' = (IF pc' = "failed" THEN Dropped ELSE channel)
    /\ UNCHANGED <<app, relay, key, observed, dispatched, invocation, output>>

\* RecvNone with rx.recv().await in place of rx.try_recv(): with nothing
\* queued the loop waits instead of going round.
RecvNoneBlocking ==
    /\ pc = "recv"
    /\ FALSE
    /\ UNCHANGED vars

\* main.rs:163: try_recv returned Err, the loop goes round.
RecvNone ==
    /\ pc = "recv"
    /\ ~try_recv(channel).ok
    /\ pc' = "top"
    /\ UNCHANGED <<app, relayVars, dispatched, invocation, output, frame,
                   sinceRender>>

\* main.rs:163-164: try_recv returned Ok(key) and key.code is `code`.  The
\* quit key ends run_app, which drops rx with whatever is still queued.
Received(code) ==
    /\ pc = "recv"
    /\ try_recv(channel).ok
    /\ try_recv(channel).value.code = code
    /\ channel' = (IF code = "q" THEN Dropped ELSE try_recv(channel).rest)
    /\ dispatched' = Append(dispatched, try_recv(channel).value.serial)
    /\ sinceRender' = sinceRender + 1
    /\ UNCHANGED <<relay, key, observed, output, frame>>

\* main.rs:165
KeyQuit ==
    /\ Received("q")
    /\ pc' = "done"
    /\ UNCHANGED <<app, invocation>>

\* KeyDown that wraps to the first row past the last one.
KeyDownWraps ==
    /\ Received("Down")
    /\ selected_container' =
          IF selected_container < saturating_sub(Len(containers), 1)
          THEN selected_container + 1
          ELSE 0
    /\ pc' = "top"
    /\ UNCHANGED <<selected_command, containers, all_flag, status_message, invocation>>

\* main.rs:166-170
KeyDown ==
    /\ Received("Down")
    /\ selected_container' =
          IF selected_container < saturating_sub(Len(containers), 1)
          THEN selected_container + 1
          ELSE selected_container
    /\ pc' = "top"
    /\ UNCHANGED <<selected_command, containers, all_flag, status_message, invocation>>

\* main.rs:171-175
KeyUp ==
    /\ Received("Up")
    /\ selected_container' =
          IF selected_container > 0 THEN selected_container - 1
          ELSE selected_container
    /\ pc' = "top"
    /\ UNCHANGED <<selected_command, containers, all_flag, status_message, invocation>>

\* main.rs:177
right_command(i) == (i + 1) % Len(commands)

\* left_command that stops at the first command instead of wrapping.
left_command_clamped(i) == IF i = 0 THEN 0 ELSE i - 1

\* main.rs:180-184
left_command(i) == IF i = 0 THEN Len(commands) - 1 ELSE i - 1

\* KeyRight that also makes the show-all flag follow the highlighted command.
KeyRightSetsFlag ==
    /\ Received("Right")
    /\ selected_command' = (selected_command + 1) % Len(commands)
    /\ all_flag' = (commands[selected_command' + 1] = "ps -a")
    /\ pc' = "top"
    /\ UNCHANGED <<selected_container, containers, status_message, invocation>>

\* main.rs:176-178
KeyRight ==
    /\ Received("Right")
    /\ selected_command' = right_command(selected_command)
    /\ pc' = "top"
    /\ UNCHANGED <<selected_container, containers, all_flag, status_message, invocation>>

\* main.rs:179-185
KeyLeft ==
    /\ Received("Left")
    /\ selected_command' = left_command(selected_command)
    /\ pc' = "top"
    /\ UNCHANGED <<selected_container, containers, all_flag, status_message, invocation>>

\* The stop shortcut reporting a failure when there is no record at the row
\* index.
KeyStopReportsNone ==
    /\ Received("s")
    /\ LET container == Get(containers, selected_container)
       IN  IF container.some
           THEN /\ invocation' = DockerStopArgs(container.value.id)
                /\ pc' = "s.await"
                /\ UNCHANGED app
           ELSE /\ pc' = "top"
                /\ status_message' = FailedStopMessage("no container")
                /\ UNCHANGED <<invocation, selected_command, selected_container,
                               containers, all_flag>>

\* The stop shortcut stopping the first record of the list, whichever row is
\* highlighted.
KeyStopFirstRow ==
    /\ Received("s")
    /\ LET container == Get(containers, selected_container)
       IN  IF container.some
           THEN /\ invocation' = DockerStopArgs(Get(containers, 0).value.id)
                /\ pc' = "s.await"
           ELSE /\ pc' = "top"
                /\ UNCHANGED invocation
    /\ UNCHANGED app

\* main.rs:186-193: with a record at the row index `docker stop <id>` is
\* started and awaited, otherwise the arm does nothing.
KeyStop ==
    /\ Received("s")
    /\ LET container == Get(containers, selected_container)
       IN  IF container.some
           THEN /\ invocation' = DockerStopArgs(container.value.id)
                /\ pc' = "s.await"
           ELSE /\ pc' = "top"
                /\ UNCHANGED invocation
    /\ UNCHANGED app

\* main.rs:189-193: .output().await returns.
KeyStopReturned ==
    /\ pc = "s.await"
    /\ \E o \in ActionOutputs : output' = o
    /\ invocation' = NoInvocation
    /\ pc' = "s.match"
    /\ UNCHANGED <<app, relayVars, dispatched, frame, sinceRender>>

\* main.rs:194-197.  container_id borrows containers[selected_container],
\* which nothing has changed since the arm began.
KeyStopMatch ==
    /\ pc = "s.match"
    /\ status_message' =
          KeyStopStatus(output, Get(containers, selected_container).value.id)
    /\ output' = NoOutput
    /\ pc' = "top"
    /\ UNCHANGED <<selected_command, selected_container, containers, all_flag,
                   relayVars, dispatched, invocation, frame, sinceRender>>

\* main.rs:200-208: Enter with "stop" highlighted.
EnterStop ==
    /\ Received("Enter")
    /\ commands[selected_command + 1] = "stop"
    /\ LET container == Get(containers, selected_container)
       IN  IF container.some
           THEN /\ invocation' = DockerStopArgs(container.value.id)
                /\ pc' = "enter.await"
           ELSE /\ pc' = "top"
                /\ UNCHANGED invocation
    /\ UNCHANGED app

\* main.rs:204-208: .output().await returns.
EnterStopReturned ==
    /\ pc = "enter.await"
    /\ \E o \in ActionOutputs : output' = o
    /\ invocation' = NoInvocation
    /\ pc' = "enter.match"
    /\ UNCHANGED <<app, relayVars, dispatched, frame, sinceRender>>

\* main.rs:209-216
EnterStopMatch ==
    /\ pc = "enter.match"
    /\ status_message' =
          EnterStopStatus(output, Get(containers, selected_container).value.id)
    /\ output' = NoOutput
    /\ pc' = "top"
    /\ UNCHANGED <<selected_command, selected_container, containers, all_flag,
                   relayVars, dispatched, invocation, frame, sinceRender>>

\* main.rs:219-225: Enter with "prune" highlighted.
EnterPrune ==
    /\ Received("Enter")
    /\ commands[selected_command + 1] = "prune"
    /\ invocation' = DockerPruneArgs
    /\ pc' = "prune.await"
    /\ UNCHANGED app

\* main.rs:220-225: .output().await returns.
EnterPruneReturned ==
    /\ pc = "prune.await"
    /\ \E o \in ActionOutputs : output' = o
    /\ invocation' = NoInvocation
    /\ pc' = "prune.match"
    /\ UNCHANGED <<app, relayVars, dispatched, frame, sinceRender>>

\* main.rs:226-229
EnterPruneMatch ==
    /\ pc = "prune.match"
    /\ status_message' = PruneStatus(output)
    /\ output' = NoOutput
    /\ pc' = "top"
    /\ UNCHANGED <<selected_command, selected_container, containers, all_flag,
                   relayVars, dispatched, invocation, frame, sinceRender>>

\* main.rs:231-234
EnterPs ==
    /\ Received("Enter")
    /\ commands[selected_command + 1] = "ps"
    /\ all_flag' = FALSE
    /\ selected_container' = 0
    /\ pc' = "top"
    /\ UNCHANGED <<selected_command, containers, status_message, invocation>>

\* EnterPsAll without the reset of the row index.
EnterPsAllKeepsRow ==
    /\ Received("Enter")
    /\ commands[selected_command + 1] = "ps -a"
    /\ all_flag' = TRUE
    /\ pc' = "top"
    /\ UNCHANGED <<selected_command, selected_container, containers,
                   status_message, invocation>>

\* main.rs:235-238
EnterPsAll ==
    /\ Received("Enter")
    /\ commands[selected_command + 1] = "ps -a"
    /\ all_flag' = TRUE
    /\ selected_container' = 0
    /\ pc' = "top"
    /\ UNCHANGED <<selected_command, containers, status_message, invocation>>

\* main.rs:241
KeyOther ==
    /\ Received("Other")
    /\ pc' = "top"
    /\ UNCHANGED <<app, invocation>>

ControlLoop ==
    \/ RefreshStart
    \/ RefreshSkip
    \/ RefreshDone
    \/ Draw
    \/ RecvNone
    \/ KeyQuit
    \/ KeyDown
    \/ KeyUp
    \/ KeyRight
    \/ KeyLeft
    \/ KeyStop
    \/ KeyStopReturned
    \/ KeyStopMatch
    \/ EnterStop
    \/ EnterStopReturned
    \/ EnterStopMatch
    \/ EnterPrune
    \/ EnterPruneReturned
    \/ EnterPruneMatch
    \/ EnterPs
    \/ EnterPsAll
    \/ KeyOther

Next == ControlLoop \/ Relay

Spec == Init /\ [][Next]_vars

\* The scheduler runs both tasks: the runtime is multi-threaded
\* (#[tokio::main], main.rs:36) and neither task waits on anything but the
\* channel and the calls modelled here.
FairSpec == Spec /\ WF_vars(ControlLoop) /\ WF_vars(Relay)

(***************************************************************************)
(* get_docker_ps_output on its own  (main.rs:249-265)                      *)
(*                                                                         *)
(* The function applied to one standard output after another, the outputs  *)
(* drawn from every text a process can print: lines that are not JSON,     *)
(* JSON objects that lack a field of the schema, and objects whose ID is   *)
(* any string, the empty one included.                                     *)
(***************************************************************************)
PartialLine == [json |-> TRUE, fields |-> Fields \ {"Names"}, ID |-> "abc123"]
AnyLines == {JsonLine(id) : id \in Ids \cup {""}} \cup {GarbageLine, PartialLine}
AnyPsOutputs ==
    {OkOutput(0, out) : out \in SeqUpTo(AnyLines, MaxLines)}
        \cup {ErrOutput(e) : e \in IoErrors}

\* The call of main.rs:82 has been made and `docker ps` is running.
DecodeInit ==
    /\ selected_command = 0
    /\ selected_container = 0
    /\ containers = <<>>
    /\ all_flag = FALSE
    /\ status_message = EmptyString
    /\ pc = "listing"
    /\ channel = <<>>
    /\ relay = "poll"
    /\ key = NoKey
    /\ observed = <<>>
    /\ dispatched = <<>>
    /\ invocation = DockerPsArgs(FALSE)
    /\ output = NoOutput
    /\ frame = None
    /\ sinceRender = 0

\* main.rs:257: command.output().await returns; `output` is the function's
\* local.
DecodeReturned ==
    /\ pc = "listing"
    /\ \E o \in AnyPsOutputs : output' = o
    /\ pc' = "collect"
    /\ UNCHANGED <<app, relayVars, dispatched, invocation, frame, sinceRender>>

\* main.rs:257-264 and 82: expect, then the decoded lines replace the cached
\* list, and the function is called again.
DecodeCollect ==
    /\ pc = "collect"
    /\ LET r == get_docker_ps_output(output)
       IN  IF r.panic
           THEN pc' = "panicked" /\ UNCHANGED containers
           ELSE pc' = "listing" /\ containers' = r.value
    /\ UNCHANGED <<selected_command, selected_container, all_flag, status_message,
                   relayVars, dispatched, invocation, output, frame, sinceRender>>

DecodeNext == DecodeReturned \/ DecodeCollect

DecodeSpec == DecodeInit /\ [][DecodeNext]_vars

(***************************************************************************)
(* Properties                                                              *)
(***************************************************************************)
Range(f) == {f[i] : i \in DOMAIN f}

\* A status text that reports a failure.
IsFailureDescription(msg) ==
    /\ msg # EmptyString
    /\ msg[1] \in {"Failed to stop container: ", "Failed to prune system: "}

\* An invocation that succeeded: the process ran and exited with code zero.
Succeeded(o) == o.ok /\ o.code = 0

\* C1: whenever the cached container list is non-empty, the highlighted row
\* index is in [0, len(containers)), whatever keys and refreshes came before.
C1_RowIndexInRange ==
    containers # <<>> => selected_container \in 0..(Len(containers) - 1)

\* What C2 asks of a step of run_app.
StopOutcomeReported ==
    pc \in {"s.match", "enter.match"} /\ pc' # pc =>
        /\ pc' = "top"
        /\ IF Succeeded(output)
           THEN Get(containers, selected_container).value.id
                    \in Range(status_message')
           ELSE IsFailureDescription(status_message')

\* C2: when a stop invocation (shortcut or Enter on "stop") has returned,
\* the status message is set to a text containing the target identifier if
\* it exited with code zero and to a failure description if it could not be
\* spawned or exited non-zero; either way the loop goes on to its next
\* iteration.
C2_StopStatusReportsOutcome == [][StopOutcomeReported]_vars

\* What C3 asks of a step of run_app.
PruneOutcomeReported ==
    pc = "prune.match" /\ pc' # pc =>
        /\ pc' = "top"
        /\ IF Succeeded(output)
           THEN status_message' = PrunedMessage
           ELSE /\ IsFailureDescription(status_message')
                /\ ~output.ok => output.err \in Range(status_message')

\* C3: when the prune invocation started by Enter has returned, the status
\* message is the prune-completed text if the tool reported success, and a
\* failure description carrying the reported error otherwise (spawn failure
\* or non-zero exit); either way the loop goes on to its next iteration.
C3_PruneStatusReportsOutcome == [][PruneOutcomeReported]_vars

\* What C4 asks of a step of run_app.
RefreshGoesOnToRender ==
    pc = "listing" =>
        /\ pc' \in {"listing", "draw"}
        /\ containers' # containers => pc' = "draw"

\* C4: a list refresh never raises an error: whatever the invocation of
\* `docker ps` comes to (no process, no usable output), run_app leaves the
\* refresh for the render, and with no usable output the cache is empty.
C4_RefreshNeverFails == [][RefreshGoesOnToRender]_vars

\* C5: the control loop is left only through the quit key: run_app never
\* returns an error and never unwinds.
C5_OnlyQuitLeavesLoop == LoopEnded => pc = "done"

IsPrefix(a, b) == Len(a) <= Len(b) /\ a = SubSeq(b, 1, Len(a))
Serials(ch) == [i \in 1..Len(ch) |-> ch[i].serial]
InHand == IF relay = "send" THEN <<key.serial>> ELSE <<>>
Awaiting == pc \in {"listing", "s.await", "enter.await", "prune.await"}

C7_RelayNeverTerminates == ~LoopEnded => relay # "panicked"

\* Key n is queued with no quit key queued ahead of it.
ForwardedBeforeQuit(n) ==
    \E i \in 1..Len(channel) :
        /\ channel[i].serial = n
        /\ \A j \in 1..(i - 1) : channel[j].code # "q"
QuitForwarded == \E i \in 1..Len(channel) : channel[i].code = "q"

\* C8: under fair scheduling every key forwarded ahead of any quit key is
\* eventually dispatched, and a forwarded quit key eventually ends the loop
\* through the quit arm.
C8_ForwardedKeysDispatched ==
    /\ \A n \in 1..MaxKeys : ForwardedBeforeQuit(n) ~> (n \in Range(dispatched))
    /\ QuitForwarded ~> (pc = "done")

\* What C9 asks of a step of run_app.
IterationOrder ==
    /\ pc = "top" /\ pc' # pc => pc' \in {"listing", "draw"}
    /\ pc' = "draw" /\ pc' # pc => pc \in {"top", "listing"}
    /\ pc' = "recv" /\ pc' # pc => pc = "draw"
    /\ frame' # frame => pc = "draw" /\ pc' = "recv"
    /\ pc = "draw" /\ pc' # pc => pc' \in {"recv", "failed"}
    /\ dispatched' # dispatched =>
          /\ pc = "recv" /\ pc' # "recv"
          /\ Len(dispatched') = Len(dispatched) + 1
    /\ pc = "recv" /\ pc' # pc /\ channel = <<>> =>
          pc' = "top" /\ dispatched' = dispatched

\* C9: an iteration is the conditional refresh, then one render, then one
\* non-blocking receive: at most one key is dispatched between two renders,
\* and with nothing queued the receive falls through to the next iteration.
C9_OneKeyPerRender ==
    /\ [](sinceRender <= 1)
    /\ [](pc = "recv" /\ channel = <<>> => ENABLED RecvNone)
    /\ [][IterationOrder]_vars

\* After a dispatch the loop has come round and rendered again, and its
\* receive finds nothing queued.
C9_Witness ==
    /\ pc = "recv"
    /\ channel = <<>>
    /\ sinceRender = 0
    /\ dispatched # <<>>

\* What C10 asks of a step of run_app.
RefreshIffListing ==
    /\ pc = "top" /\ pc' # pc =>
          IF selected_command \in {0, 1}
          THEN pc' = "listing" /\ invocation' = DockerPsArgs(all_flag)
          ELSE pc' = "draw" /\ invocation' = NoInvocation
    /\ containers' # containers =>
          /\ pc = "listing" /\ pc' = "draw"
          /\ selected_command \in {0, 1}
          /\ invocation = DockerPsArgs(all_flag)
    /\ pc' = "draw" /\ pc' # pc /\ selected_command \in {0, 1} => pc = "listing"

\* C10: at the start of an iteration `docker ps` is invoked with the
\* show-all flag if and only if "ps" or "ps -a" is highlighted, and only its
\* result replaces the cached list; so a listing command highlighted by a
\* left/right key is refreshed before the next render, and with "stop" or
\* "prune" highlighted the cached list stays as it is.
C10_RefreshIffListing == [][RefreshIffListing]_vars

\* The one key dispatched so far, Right, has highlighted "ps -a"; no frame
\* has been drawn since and the refresh is in flight.
C10_Witness ==
    /\ pc = "listing"
    /\ selected_command = 1
    /\ Len(dispatched) = 1
    /\ sinceRender = 1
\* run_app takes a key with code c from the channel and matches on it.
Dispatching(c) ==
    /\ pc = "recv"
    /\ dispatched' # dispatched
    /\ channel # <<>>
    /\ Head(channel).code = c

\* What C11 asks of a step of run_app.
ActivationSetsFlag ==
    /\ Dispatching("Enter") /\ selected_command = 0 =>
          all_flag' = FALSE /\ selected_container' = 0
    /\ Dispatching("Enter") /\ selected_command = 1 =>
          all_flag' = TRUE /\ selected_container' = 0
    /\ all_flag' # all_flag =>
          Dispatching("Enter") /\ selected_command \in {0, 1}
    /\ pc' = "listing" /\ pc' # pc =>
          /\ invocation'[2] = "ps"
          /\ "-a" \in Range(invocation') <=> all_flag

ArrowsOnlyMoveHighlight ==
    /\ Dispatching("Right") \/ Dispatching("Left") =>
          /\ selected_command' # selected_command
          /\ UNCHANGED <<all_flag, selected_container, status_message, containers>>
          /\ invocation' = NoInvocation
    /\ all_flag' # all_flag =>
          Dispatching("Enter") /\ selected_command \in {0, 1}

\* C12: the left and right keys change the highlighted command and nothing
\* else of the application state; the show-all flag changes only when Enter
\* is dispatched with a listing command highlighted.
C12_ArrowsOnlyMoveHighlight == [][ArrowsOnlyMoveHighlight]_vars

\* "ps -a" is highlighted but was not activated: the refresh in flight lists
\* running containers only.
C12_Witness ==
    /\ pc = "listing"
    /\ selected_command = 1
    /\ ~all_flag
    /\ invocation = <<"docker", "ps", "--format", "{{json .}}">>
\* The highlighted command is a valid index, and from it four rights, four
\* lefts, a right then a left, and a left then a right all come back to it.
ClosedRotation ==
    /\ selected_command \in 0..3
    /\ right_command(right_command(right_command(right_command(selected_command))))
          = selected_command
    /\ left_command(left_command(left_command(left_command(selected_command))))
          = selected_command
    /\ left_command(right_command(selected_command)) = selected_command
    /\ right_command(left_command(selected_command)) = selected_command

\* What C13 asks of a step of run_app.
ArrowsRotate ==
    /\ Dispatching("Right") => selected_command' = (selected_command + 1) % 4
    /\ Dispatching("Left") => selected_command' = (selected_command + 3) % 4

\* C13: the highlighted command index stays in [0, 4); the right key moves
\* it to (i + 1) mod 4 and the left key to (i - 1) mod 4, so four presses of
\* either key return to the index they started from and left undoes right.
C13_CommandRotation == []ClosedRotation /\ [][ArrowsRotate]_vars

\* One key has been dispatched, Left, and it wrapped from "ps" to "prune".
C13_Witness ==
    /\ selected_command = 3
    /\ Len(dispatched) = 1
    /\ pc = "top"

\* The row index addresses a record, or the list is empty and the index 0.
RowInRange ==
    \/ selected_container < Len(containers)
    \/ Len(containers) = 0 /\ selected_container = 0

\* What C14 asks of a step of run_app.
RowsClamp ==
    /\ Dispatching("Down") /\ RowInRange =>
          selected_container' =
              IF selected_container < Len(containers) - 1
              THEN selected_container + 1
              ELSE selected_container
    /\ Dispatching("Up") /\ RowInRange =>
          selected_container' =
              IF selected_container > 0
              THEN selected_container - 1
              ELSE selected_container
    /\ (Dispatching("Down") \/ Dispatching("Up")) /\ RowInRange =>
          containers' = containers /\ RowInRange'

\* C14: with the row index in range of a list of length N, the down key
\* adds one below N - 1 and otherwise changes nothing, the up key subtracts
\* one above 0 and otherwise changes nothing; the index never wraps, and
\* with N = 0 neither key changes it.
C14_RowsClamp == [][RowsClamp]_vars

\* Two records, the second highlighted after a Down, and the next key
\* run_app receives is another Down.
C14_Witness ==
    /\ pc = "recv"
    /\ Len(containers) = 2
    /\ selected_container = 1
    /\ dispatched # <<>>
    /\ channel # <<>>
    /\ Head(channel).code = "Down"
\* A stop is requested: the shortcut with any command highlighted, or Enter
\* with "stop" highlighted.
StopRequested ==
    \/ Dispatching("s")
    \/ Dispatching("Enter") /\ selected_command = 2

\* What C15 asks of a step of run_app: both requests start the same
\* invocation or none, and each path's match sets the status the other
\* path's match computes from the same outcome and record.
SameStopAction ==
    /\ StopRequested =>
          /\ UNCHANGED app
          /\ IF selected_container < Len(containers)
             THEN /\ invocation' =
                        <<"docker", "stop", containers[selected_container + 1].id>>
                  /\ pc' \in {"s.await", "enter.await"}
             ELSE /\ invocation' = NoInvocation
                  /\ pc' = "top"
    /\ pc = "s.match" /\ pc' # pc =>
          /\ status_message' =
                EnterStopStatus(output, containers[selected_container + 1].id)
          /\ pc' = "top"
          /\ UNCHANGED <<selected_command, selected_container, containers, all_flag>>
    /\ pc = "enter.match" /\ pc' # pc =>
          /\ status_message' =
                KeyStopStatus(output, containers[selected_container + 1].id)
          /\ pc' = "top"
          /\ UNCHANGED <<selected_command, selected_container, containers, all_flag>>

\* C15: the stop shortcut and Enter on "stop" are one action: each starts
\* `docker stop` for the record at the row index, or nothing when there is
\* none, and for the same outcome each leaves the same application state;
\* the shortcut does so whichever command is highlighted.
C15_SameStopAction == [][SameStopAction]_vars

\* Enter on "stop" has run `docker stop` and is about to report success.
C15_Witness ==
    /\ pc = "enter.match"
    /\ selected_command = 2
    /\ output.ok

\* A line that conforms to the schema of ContainerInfo.
WellFormed(line) == line.json /\ \A f \in Fields : f \in line.fields

\* The records of the well-formed lines of a batch, in the order of the lines.
RecordsOf(lines) ==
    LET good == SelectSeq(lines, WellFormed)
    IN  [i \in 1..Len(good) |-> [id |-> good[i].ID]]

\* A batch without its k-th line.
Without(lines, k) == SubSeq(lines, 1, k - 1) \o SubSeq(lines, k + 1, Len(lines))

\* C16: every record in the cached container list has a non-empty
\* identifier, and the list holds exactly one record per line that decodes.
C16_IdentifiersNonEmpty ==
    /\ \A i \in 1..Len(containers) : containers[i].id # ""
    /\ pc = "listing" /\ output.ok =>
          Len(containers) = Len(SelectSeq(output.stdout, WellFormed))

\* C17: the list decoded from a batch of lines is exactly the records of its
\* well-formed lines in source order, and taking a malformed line out of the
\* batch changes nothing of what the other lines decode to.
C17_DecodeIsolation ==
    pc = "listing" /\ output.ok =>
        /\ containers = RecordsOf(output.stdout)
        /\ \A k \in 1..Len(output.stdout) :
              ~WellFormed(output.stdout[k]) =>
                  filter_map(Without(output.stdout, k)) = containers

\* A batch whose first line is malformed and whose second line decodes has
\* been collected into one record.
C17_Witness ==
    /\ pc = "listing"
    /\ output.ok
    /\ Len(output.stdout) = 2
    /\ ~WellFormed(output.stdout[1])
    /\ containers = <<[id |-> output.stdout[2].ID]>>
\* A stop requested with no record at the row index starts nothing and
\* changes nothing but the loop's position.
NoRowStopInert ==
    StopRequested /\ ~(selected_container < Len(containers)) =>
        /\ invocation = NoInvocation
        /\ invocation' = NoInvocation
        /\ UNCHANGED <<app, output, frame>>
        /\ pc' = "top"

\* A listing that ran and printed no well-formed line decodes to the empty
\* list without a panic.
EmptyListingRaisesNothing ==
    \A o \in PsOutputs :
        o.ok /\ SelectSeq(o.stdout, WellFormed) = <<>> =>
            /\ ~get_docker_ps_output(o).panic
            /\ get_docker_ps_output(o).value = <<>>

\* C18: with no record at the row index (the list is empty or the index is
\* past its end) the stop shortcut and Enter on "stop" start no process and
\* leave the status message and the rest of the application state as they
\* were; a listing without a valid line gives such an empty list and no
\* error.
C18_StopWithoutRowIsInert == []EmptyListingRaisesNothing /\ [][NoRowStopInert]_vars

\* Enter is about to be dispatched on "stop" over an empty list.
C18_Witness ==
    /\ pc = "recv"
    /\ channel # <<>>
    /\ Head(channel).code = "Enter"
    /\ selected_command = 2
    /\ containers = <<>>

\* While the loop waits at try_recv the frame on screen is the one drawn from
\* the current list, row index and status.
FrameShowsRow == pc = "recv" => frame = Render

\* A step that starts `docker stop` targets the record the frame shows
\* highlighted; a step that leaves the loop at try_recv changes neither the
\* list nor the row index.
StopTargetsDrawnRow ==
    /\ pc' \in {"s.await", "enter.await"} /\ pc' # pc =>
          /\ pc = "recv"
          /\ frame.some
          /\ frame.value.highlighted.some
          /\ invocation' = <<"docker", "stop", frame.value.highlighted.value.id>>
    /\ pc = "recv" /\ pc' = "recv" => UNCHANGED <<containers, selected_container, frame>>

\* C19: a `docker stop` is always started for the identifier of the row
\* drawn highlighted in the last rendered frame: from the draw to the
\* dispatch neither the list nor the row index changes.
C19_StopTargetsDrawnRow == []FrameShowsRow /\ [][StopTargetsDrawnRow]_vars

\* The shortcut has started a stop of the second row, drawn highlighted,
\* while the first row holds another container.
C19_Witness ==
    /\ pc = "s.await"
    /\ selected_container = 1
    /\ containers[1].id = "abc123"
    /\ invocation = <<"docker", "stop", "def456">>
    /\ frame.value.highlighted = Some([id |-> "def456"])

\* A step from a full channel adds nothing to it, and a relay waiting in send
\* stays there.
FullChannelBlocksSend ==
    Len(channel) = ChannelCapacity =>
        /\ Len(channel') <= Len(channel)
        /\ relay = "send" => relay' = "send"

\* C20: the channel never holds more keys than its capacity, and while it is
\* full the relay waits in send and adds nothing until the loop has taken a
\* key.
C20_ChannelBounded ==
    /\ [](Len(channel) <= ChannelCapacity)
    /\ [][FullChannelBlocksSend]_vars

\* The relay holds a key in send, the channel is full and the loop has not
\* yet dispatched anything.
C20_Witness ==
    /\ relay = "send"
    /\ key # NoKey
    /\ Len(channel) = ChannelCapacity
    /\ pc = "recv"
    /\ dispatched = <<>>
====
